---- MODULE Spec2Model ----
(***************************************************************************)
(* Model of the channel handshake driver of the relayer                    *)
(* (relayer/src/channel.rs): the channel configuration, the four message   *)
(* builders, the four send-and-extract wrappers and Channel::handshake     *)
(* with its three bounded retry loops.  The two chains are the             *)
(* environment: they hold channel ends, execute ICS-004 messages, and may  *)
(* fail any call or return an unhelpful event list.                        *)
(***************************************************************************)
EXTENDS Integers, Sequences, FiniteSets, TLC

\* relay::MAX_ITER, imported at channel.rs:27; the retry budget of each phase
MAX_ITER == 3

\* number of steps other actors (another relayer, a user closing the channel)
\* may take on the two chains during one run
MaxEnv == 1

\* number of blocks the source chain may produce while a builder runs, between
\* the builder's query_channel and its query_latest_height
MaxBlocks == 1

----------------------------------------------------------------------------
\* Identifiers

DefaultChannelId == "defaultChannel"
ChanIds == {DefaultChannelId, "channel-0", "channel-7"}
NoChan == "none"

PortA == "portA"
PortB == "portB"
ConnA == "connection-A"
ConnB == "connection-B"
ClientA == "client-A"
ClientB == "client-B"
Version == "ics20-1"
Signer == "signer"
Unordered == "Unordered"

Chains == {"A", "B"}
Other(c) == IF c = "A" THEN "B" ELSE "A"
ConnOf(c) == IF c = "A" THEN ConnA ELSE ConnB

\* ics04_channel::channel::State, with the numeric values of the enum
Uninitialized == 0
StInit == 1
TryOpen == 2
Open == 3
Closed == 4
States == {Uninitialized, StInit, TryOpen, Open, Closed}

----------------------------------------------------------------------------
\* Result<T, E>

Ok(v) == [ok |-> TRUE, val |-> v, kind |-> "", msg |-> ""]
Err(k, m) == [ok |-> FALSE, val |-> "", kind |-> k, msg |-> m]

----------------------------------------------------------------------------
\* ChannelConfigSide, ChannelConfig

ChannelConfigSide(chain, conn, client, port, chan) ==
  [chain_id |-> chain, connection_id |-> conn, client_id |-> client,
   port_id |-> port, channel_id |-> chan]

src(c) == c.a_config
dst(c) == c.b_config
a_end(c) == c.a_config
b_end(c) == c.b_config

\* flipped with the ordering of a new configuration instead of c's
flipped_default_ordering(c) ==
  [ordering |-> "Unordered", a_config |-> c.b_config, b_config |-> c.a_config]

flipped(c) ==
  [ordering |-> c.ordering, a_config |-> c.b_config, b_config |-> c.a_config]

\* Channel::new: client and connection ids are taken from the connection
ChannelNew(aChan, bChan) ==
  [ordering |-> Unordered,
   a_config |-> ChannelConfigSide("A", ConnA, ClientA, PortA, aChan),
   b_config |-> ChannelConfigSide("B", ConnB, ClientB, PortB, bChan)]

----------------------------------------------------------------------------
\* ChannelEnd, Counterparty

Counterparty(port, chan) == [port_id |-> port, channel_id |-> chan]

ChannelEnd(st, ord, cp, hops, ver) ==
  [state |-> st, ordering |-> ord, counterparty |-> cp,
   connection_hops |-> hops, version |-> ver]

NoChannel ==
  ChannelEnd(Uninitialized, Unordered, Counterparty("", NoChan), <<>>, "")

----------------------------------------------------------------------------
\* IBCEvent

Event(t, chan, m) == [type |-> t, channel_id |-> chan, message |-> m]
ChainError(m) == Event("ChainError", NoChan, m)
NewBlock == Event("NewBlock", NoChan, "")

----------------------------------------------------------------------------
\* Messages

NoProofs == [port_id |-> "", channel_id |-> NoChan]
Proofs(port, chan) == [port_id |-> port, channel_id |-> chan]

\* the i-th message the client updater produced for one call
MsgUpdateClient(client, i) ==
  [type |-> "MsgUpdateClient", client_id |-> client, header |-> i]

\* foreign_client::build_update_client: n client-update messages, n chosen by
\* the client updater
build_update_client(client, n) == [i \in 1..n |-> MsgUpdateClient(client, i)]

ChanMsg(t, port, chan, prev, end, cpChan, cpVer, proofs) ==
  [type |-> t, port_id |-> port, channel_id |-> chan,
   previous_channel_id |-> prev, channel |-> end,
   counterparty_channel_id |-> cpChan, counterparty_version |-> cpVer,
   proofs |-> proofs, signer |-> Signer]

----------------------------------------------------------------------------
\* ChainHandle queries.  A fault names the call of a builder that fails;
\* "none" lets every call succeed.

query_channel(ch, chain, id) == ch[chain][id]

InitFaults == {"none", "get_signer", "module_version_dst"}
TryFaults ==
  {"none", "query_channel_src", "query_connection", "query_latest_height",
   "build_update_client", "module_version_dst", "get_signer",
   "module_version_src", "build_channel_proofs"}
AckFaults == TryFaults \cup {"query_channel_dst"}
\* build_chan_confirm makes the calls of build_chan_ack but for
\* src_chain.module_version
ConfirmFaults == AckFaults \ {"module_version_src"}
\* One fault for each error a builder can return.  The calls whose error is
\* passed on with ? give the same error, and so do the two calls of
\* validated_expected_channel, whose error build_chan_ack and
\* build_chan_confirm replace by their own.
TryFaultKinds ==
  {"none", "query_channel_src", "query_connection", "get_signer"}
AckFaultKinds == TryFaultKinds \cup {"query_channel_dst"}

----------------------------------------------------------------------------
\* Builders.  dstc and srcc name the destination and the source chain.

\* build_chan_init reading the configuration the other way round, as for a
\* configuration that was not flipped
build_chan_init_unflipped(ch, dstc, srcc, opts, f) ==
  IF f = "get_signer" THEN Err("KeyBase", "")
  ELSE IF f = "module_version_dst" THEN Err("Chain", "")
  ELSE
    LET counterparty == Counterparty(dst(opts).port_id, NoChan)
        channel == ChannelEnd(StInit, opts.ordering, counterparty,
                              <<src(opts).connection_id>>, Version)
    IN Ok(<<ChanMsg("MsgChannelOpenInit", src(opts).port_id, NoChan, NoChan,
                    channel, NoChan, "", NoProofs)>>)

\* build_chan_init with a client update in front of the message
build_chan_init_with_update(ch, dstc, srcc, opts, f) ==
  IF f = "get_signer" THEN Err("KeyBase", "")
  ELSE IF f = "module_version_dst" THEN Err("Chain", "")
  ELSE
    LET counterparty == Counterparty(src(opts).port_id, NoChan)
        channel == ChannelEnd(StInit, opts.ordering, counterparty,
                              <<dst(opts).connection_id>>, Version)
    IN Ok(build_update_client(dst(opts).client_id, 1) \o
          <<ChanMsg("MsgChannelOpenInit", dst(opts).port_id, NoChan, NoChan,
                    channel, NoChan, "", NoProofs)>>)

build_chan_init(ch, dstc, srcc, opts, f) ==
  IF f = "get_signer" THEN Err("KeyBase", "")
  ELSE IF f = "module_version_dst" THEN Err("Chain", "")
  ELSE
    LET counterparty == Counterparty(src(opts).port_id, NoChan)
        channel == ChannelEnd(StInit, opts.ordering, counterparty,
                              <<dst(opts).connection_id>>, Version)
    IN Ok(<<ChanMsg("MsgChannelOpenInit", dst(opts).port_id, NoChan, NoChan,
                    channel, NoChan, "", NoProofs)>>)

\* check_destination_channel_state with the state bound made strict
check_destination_channel_state_strict(channel_id, existing_channel, expected_channel) ==
  IF /\ existing_channel.state < expected_channel.state
     /\ existing_channel.connection_hops = expected_channel.connection_hops
     /\ \/ existing_channel.counterparty.channel_id = NoChan
        \/ existing_channel.counterparty.channel_id
             = expected_channel.counterparty.channel_id
  THEN Ok("")
  ELSE Err("ChanOpen", "channel already exist in an incompatible state")

check_destination_channel_state(channel_id, existing_channel, expected_channel) ==
  LET good_connection_hops ==
        existing_channel.connection_hops = expected_channel.connection_hops
      good_state == existing_channel.state <= expected_channel.state
      good_channel_ids ==
        \/ existing_channel.counterparty.channel_id = NoChan
        \/ existing_channel.counterparty.channel_id
             = expected_channel.counterparty.channel_id
  IN IF good_state /\ good_connection_hops /\ good_channel_ids
     THEN Ok("")
     ELSE Err("ChanOpen", "channel already exist in an incompatible state")

\* validated_expected_channel with Open as the highest state for OpenConfirm
validated_expected_channel_confirm_open(ch, dstc, srcc, msg_type, opts, f) ==
  LET counterparty == Counterparty(src(opts).port_id, src(opts).channel_id)
      highest_state ==
        IF msg_type = "OpenAck" THEN TryOpen
        ELSE IF msg_type = "OpenConfirm" THEN Open
        ELSE Uninitialized
      dst_expected_channel ==
        ChannelEnd(highest_state, opts.ordering, counterparty,
                   <<dst(opts).connection_id>>, Version)
      dst_channel == query_channel(ch, dstc, dst(opts).channel_id)
      checked == check_destination_channel_state(dst(opts).channel_id,
                                                 dst_channel,
                                                 dst_expected_channel)
  IN IF f = "module_version_dst" THEN Err("Chain", "")
     ELSE IF f = "query_channel_dst" THEN Err("Chain", "")
     ELSE IF dst_channel.state = Uninitialized
       THEN Err("ChanOpen", "missing channel on source chain")
     ELSE IF ~checked.ok THEN checked
     ELSE Ok(dst_expected_channel)

validated_expected_channel(ch, dstc, srcc, msg_type, opts, f) ==
  LET counterparty == Counterparty(src(opts).port_id, src(opts).channel_id)
      highest_state ==
        IF msg_type \in {"OpenAck", "OpenConfirm"} THEN TryOpen
        ELSE Uninitialized
      dst_expected_channel ==
        ChannelEnd(highest_state, opts.ordering, counterparty,
                   <<dst(opts).connection_id>>, Version)
      dst_channel == query_channel(ch, dstc, dst(opts).channel_id)
      checked == check_destination_channel_state(dst(opts).channel_id,
                                                 dst_channel,
                                                 dst_expected_channel)
  IN IF f = "module_version_dst" THEN Err("Chain", "")
     ELSE IF f = "query_channel_dst" THEN Err("Chain", "")
     ELSE IF dst_channel.state = Uninitialized
       THEN Err("ChanOpen", "missing channel on source chain")
     ELSE IF ~checked.ok THEN checked
     ELSE Ok(dst_expected_channel)

build_chan_try(ch, dstc, srcc, opts, f, n) ==
  IF f = "query_channel_src"
    THEN Err("ChanOpenTry", "channel does not exist on source")
  ELSE IF f = "get_signer" THEN Err("KeyBase", "")
  ELSE IF f \in TryFaults \ {"none"} THEN Err("Chain", "")
  ELSE
    LET src_channel == query_channel(ch, srcc, src(opts).channel_id)
        msgs == build_update_client(dst(opts).client_id, n)
        counterparty == Counterparty(src(opts).port_id, src(opts).channel_id)
        channel == ChannelEnd(TryOpen, opts.ordering, counterparty,
                              <<dst(opts).connection_id>>, Version)
        new_msg == ChanMsg("MsgChannelOpenTry", dst(opts).port_id, NoChan,
                           src_channel.counterparty.channel_id, channel,
                           NoChan, Version,
                           Proofs(src(opts).port_id, src(opts).channel_id))
    IN Ok(msgs \o <<new_msg>>)

\* build_chan_ack without the check of the destination channel
build_chan_ack_unchecked(ch, dstc, srcc, opts, f, n) ==
  IF f = "query_channel_src"
    THEN Err("ChanOpenAck", "channel does not exist on source")
  ELSE IF f = "get_signer" THEN Err("KeyBase", "")
  ELSE IF f \in AckFaults \ {"none"} THEN Err("Chain", "")
  ELSE
    LET msgs == build_update_client(dst(opts).client_id, n)
        new_msg == ChanMsg("MsgChannelOpenAck", dst(opts).port_id,
                           dst(opts).channel_id, NoChan, NoChannel,
                           src(opts).channel_id, Version,
                           Proofs(src(opts).port_id, src(opts).channel_id))
    IN Ok(msgs \o <<new_msg>>)

build_chan_ack(ch, dstc, srcc, opts, f, n) ==
  LET expected == validated_expected_channel(ch, dstc, srcc, "OpenAck", opts,
                                         f)
  IN
  IF ~expected.ok
    THEN Err("ChanOpenAck",
             "ack options inconsistent with existing channel on destination chain")
  ELSE IF f = "query_channel_src"
    THEN Err("ChanOpenAck", "channel does not exist on source")
  ELSE IF f = "get_signer" THEN Err("KeyBase", "")
  ELSE IF f \in AckFaults \ {"none"} THEN Err("Chain", "")
  ELSE
    LET msgs == build_update_client(dst(opts).client_id, n)
        new_msg == ChanMsg("MsgChannelOpenAck", dst(opts).port_id,
                           dst(opts).channel_id, NoChan, NoChannel,
                           src(opts).channel_id, Version,
                           Proofs(src(opts).port_id, src(opts).channel_id))
    IN Ok(msgs \o <<new_msg>>)

build_chan_confirm(ch, dstc, srcc, opts, f, n) ==
  LET expected == validated_expected_channel(ch, dstc, srcc, "OpenConfirm",
                                         opts, f)
  IN
  IF ~expected.ok
    THEN Err("ChanOpenConfirm",
             "confirm options inconsistent with existing channel on destination chain")
  ELSE IF f = "query_channel_src"
    THEN Err("ChanOpenConfirm", "channel does not exist on source")
  ELSE IF f = "get_signer" THEN Err("KeyBase", "")
  ELSE IF f \in ConfirmFaults \ {"none"} THEN Err("Chain", "")
  ELSE
    LET msgs == build_update_client(dst(opts).client_id, n)
        new_msg == ChanMsg("MsgChannelOpenConfirm", dst(opts).port_id,
                           dst(opts).channel_id, NoChan, NoChannel,
                           NoChan, "",
                           Proofs(src(opts).port_id, src(opts).channel_id))
    IN Ok(msgs \o <<new_msg>>)

----------------------------------------------------------------------------
\* The calls a builder makes on the two chain handles and on the client
\* updater, in the order of the code, when none of them fails.  height is the
\* height argument of the call (DefaultHeight for Height::default()), or the
\* height returned by query_latest_height; at is, for a call on the source
\* chain, the height of the chain state the call reads: the latest one for
\* DefaultHeight (heights of the destination are not followed).  The source
\* chain is at
\* EntryHeight when the builder is entered and produces k blocks between the
\* builder's query_channel and its query_latest_height.

DefaultHeight == 0
EntryHeight == 10

Call(c, name, h, at) == [chain |-> c, call |-> name, height |-> h, at |-> at]

\* the height a call with height argument h reads, on a chain whose latest
\* height is latest
ReadAt(h, latest) == IF h = DefaultHeight THEN latest ELSE h

query_latest_height(k) == EntryHeight + k

validated_expected_channel_calls(dstc) ==
  << Call(dstc, "module_version", DefaultHeight, DefaultHeight),
     Call(dstc, "query_channel", DefaultHeight, DefaultHeight) >>

\* the calls of build_chan_try with the latest height queried a second time
\* for the proofs
build_chan_try_calls_requery(dstc, srcc, k) ==
  LET ics_target_height == query_latest_height(k)
  IN << Call(srcc, "query_channel", DefaultHeight,
             ReadAt(DefaultHeight, EntryHeight)),
        Call(dstc, "query_connection", DefaultHeight, DefaultHeight),
        Call(srcc, "query_latest_height", ics_target_height,
             ics_target_height),
        Call(dstc, "build_update_client", ics_target_height,
             ics_target_height),
        Call(dstc, "module_version", DefaultHeight, DefaultHeight),
        Call(dstc, "get_signer", DefaultHeight, DefaultHeight),
        Call(srcc, "module_version", DefaultHeight, DefaultHeight),
        Call(srcc, "query_latest_height", ics_target_height,
             ics_target_height),
        Call(srcc, "build_channel_proofs", ics_target_height,
             ReadAt(ics_target_height, ics_target_height)) >>

build_chan_try_calls(dstc, srcc, k) ==
  LET ics_target_height == query_latest_height(k)
  IN << Call(srcc, "query_channel", DefaultHeight,
             ReadAt(DefaultHeight, EntryHeight)),
        Call(dstc, "query_connection", DefaultHeight, DefaultHeight),
        Call(srcc, "query_latest_height", ics_target_height,
             ics_target_height),
        Call(dstc, "build_update_client", ics_target_height,
             ics_target_height),
        Call(dstc, "module_version", DefaultHeight, DefaultHeight),
        Call(dstc, "get_signer", DefaultHeight, DefaultHeight),
        Call(srcc, "module_version", DefaultHeight, DefaultHeight),
        Call(srcc, "build_channel_proofs", ics_target_height,
             ReadAt(ics_target_height, ics_target_height)) >>

build_chan_ack_calls(dstc, srcc, k) ==
  LET ics_target_height == query_latest_height(k)
  IN validated_expected_channel_calls(dstc) \o
     << Call(srcc, "query_channel", DefaultHeight,
             ReadAt(DefaultHeight, EntryHeight)),
        Call(dstc, "query_connection", DefaultHeight, DefaultHeight),
        Call(srcc, "query_latest_height", ics_target_height,
             ics_target_height),
        Call(dstc, "build_update_client", ics_target_height,
             ics_target_height),
        Call(dstc, "get_signer", DefaultHeight, DefaultHeight),
        Call(srcc, "module_version", DefaultHeight, DefaultHeight),
        Call(srcc, "build_channel_proofs", ics_target_height,
             ReadAt(ics_target_height, ics_target_height)) >>

build_chan_confirm_calls(dstc, srcc, k) ==
  LET ics_target_height == query_latest_height(k)
  IN validated_expected_channel_calls(dstc) \o
     << Call(srcc, "query_channel", DefaultHeight,
             ReadAt(DefaultHeight, EntryHeight)),
        Call(dstc, "query_connection", DefaultHeight, DefaultHeight),
        Call(srcc, "query_latest_height", ics_target_height,
             ics_target_height),
        Call(dstc, "build_update_client", ics_target_height,
             ics_target_height),
        Call(dstc, "get_signer", DefaultHeight, DefaultHeight),
        Call(srcc, "build_channel_proofs", ics_target_height,
             ReadAt(ics_target_height, ics_target_height)) >>

----------------------------------------------------------------------------
\* The chains.  A chain executes the ICS-004 message of a transaction against
\* its channel ends; nid is the identifier it would allocate to a new channel.

AllocOrder(c) ==
  IF c = "A" THEN <<"channel-0", "channel-7">> ELSE <<"channel-7", "channel-0">>

\* the identifier the chain gives to its next new channel: the first one of
\* its allocation order that is not in use, or none when all are
NextId(ch, c) ==
  LET free == {i \in 1..Len(AllocOrder(c)) :
                 ch[c][AllocOrder(c)[i]].state = Uninitialized}
  IN IF free = {} THEN NoChan
     ELSE AllocOrder(c)[CHOOSE i \in free : \A j \in free : i <= j]

OpenEvent(t) ==
  CASE t = "MsgChannelOpenInit" -> "OpenInitChannel"
    [] t = "MsgChannelOpenTry" -> "OpenTryChannel"
    [] t = "MsgChannelOpenAck" -> "OpenAckChannel"
    [] t = "MsgChannelOpenConfirm" -> "OpenConfirmChannel"

Rejected(ch) == [ch |-> ch, event |-> ChainError("rejected")]

Accepted(ch, chain, id, end, t) ==
  [ch |-> [ch EXCEPT ![chain][id] = end], event |-> Event(OpenEvent(t), id, "")]

ChanOpenInit(ch, chain, m, nid) ==
  IF /\ nid \in ChanIds
     /\ ch[chain][nid].state = Uninitialized
     /\ m.channel.connection_hops = <<ConnOf(chain)>>
  THEN Accepted(ch, chain, nid, m.channel, m.type)
  ELSE Rejected(ch)

ChanOpenTry(ch, chain, m, nid) ==
  LET proven == ch[Other(chain)][m.proofs.channel_id]
      id == IF m.previous_channel_id = NoChan THEN nid
            ELSE m.previous_channel_id
      free == IF m.previous_channel_id = NoChan
              THEN ch[chain][id].state = Uninitialized
              ELSE ch[chain][id].state = StInit
  IN IF /\ id \in ChanIds
        /\ free
        /\ proven.state \in {StInit, TryOpen}
        /\ m.channel.connection_hops = <<ConnOf(chain)>>
        /\ m.channel.counterparty.channel_id = m.proofs.channel_id
     THEN Accepted(ch, chain, id, m.channel, m.type)
     ELSE Rejected(ch)

ChanOpenAck(ch, chain, m) ==
  LET end == ch[chain][m.channel_id]
      proven == ch[Other(chain)][m.proofs.channel_id]
  IN IF /\ end.state \in {StInit, TryOpen}
        /\ m.proofs.channel_id = m.counterparty_channel_id
        /\ proven.state = TryOpen
        /\ proven.counterparty.channel_id = m.channel_id
     THEN Accepted(ch, chain, m.channel_id,
                   [end EXCEPT !.state = Open,
                               !.counterparty.channel_id =
                                  m.counterparty_channel_id],
                   m.type)
     ELSE Rejected(ch)

ChanOpenConfirm(ch, chain, m) ==
  LET end == ch[chain][m.channel_id]
      proven == ch[Other(chain)][m.proofs.channel_id]
  IN IF /\ end.state = TryOpen
        /\ end.counterparty.channel_id = m.proofs.channel_id
        /\ proven.state = Open
        /\ proven.counterparty.channel_id = m.channel_id
     THEN Accepted(ch, chain, m.channel_id, [end EXCEPT !.state = Open],
                   m.type)
     ELSE Rejected(ch)

Execute(ch, chain, m, nid) ==
  CASE m.type = "MsgChannelOpenInit" -> ChanOpenInit(ch, chain, m, nid)
    [] m.type = "MsgChannelOpenTry" -> ChanOpenTry(ch, chain, m, nid)
    [] m.type = "MsgChannelOpenAck" -> ChanOpenAck(ch, chain, m)
    [] m.type = "MsgChannelOpenConfirm" -> ChanOpenConfirm(ch, chain, m)

\* ChainHandle::send_msgs: what a submission of msgs to chain can answer, and
\* the channel ends it leaves behind.  honest marks the answers of a chain
\* that executes the transaction, or rejects it, and reports what it did.
Outcome(res, ch, honest) == [res |-> res, ch |-> ch, honest |-> honest]

send_msgs(ch, chain, msgs) ==
  LET x == Execute(ch, chain, msgs[Len(msgs)], NextId(ch, chain))
  IN { Outcome(Ok(<<NewBlock, x.event>>), x.ch, TRUE),
       Outcome(Ok(<<NewBlock>>), ch, FALSE),
       Outcome(Ok(<<ChainError("insufficient fee")>>), ch, FALSE),
       Outcome(Err("Chain", ""), ch, FALSE) }

NotSent(ch) == Outcome(Err("NotSent", ""), ch, TRUE)

----------------------------------------------------------------------------
\* Send-and-extract wrappers.  dst_msgs is the builder's result and sent the
\* result of send_msgs (looked at only when the builder succeeded).

NoEvent == Event("", NoChan, "")

\* a search that returns the last event whose type is one of types
find_last(events, types) ==
  LET hits == {i \in 1..Len(events) : events[i].type \in types}
  IN IF hits = {} THEN NoEvent
     ELSE events[CHOOSE i \in hits : \A j \in hits : i >= j]

\* events.iter().find(..): the first event whose type is one of types
find(events, types) ==
  LET hits == {i \in 1..Len(events) : events[i].type \in types}
  IN IF hits = {} THEN NoEvent
     ELSE events[CHOOSE i \in hits : \A j \in hits : i <= j]

build_chan_init_and_send(dst_msgs, sent) ==
  IF ~dst_msgs.ok THEN dst_msgs
  ELSE IF ~sent.ok THEN sent
  ELSE
    LET result == find(sent.val, {"OpenInitChannel", "ChainError"})
    IN IF result = NoEvent
         THEN Err("ChanOpenInit", "no chan init event was in the response")
       ELSE IF result.type = "OpenInitChannel" THEN Ok(result)
       ELSE Err("ChanOpenInit", result.message)

build_chan_try_and_send(dst_msgs, sent) ==
  IF ~dst_msgs.ok THEN dst_msgs
  ELSE IF ~sent.ok THEN sent
  ELSE
    LET result == find(sent.val, {"OpenTryChannel", "ChainError"})
    IN IF result = NoEvent
         THEN Err("ChanOpenTry", "no chan try event was in the response")
       ELSE Ok(result)

build_chan_ack_and_send(dst_msgs, sent) ==
  IF ~dst_msgs.ok THEN dst_msgs
  ELSE IF ~sent.ok THEN sent
  ELSE
    LET result == find(sent.val, {"OpenAckChannel", "ChainError"})
    IN IF result = NoEvent
         THEN Err("ChanOpenAck", "no chan ack event was in the response")
       ELSE Ok(result)

build_chan_confirm_and_send(dst_msgs, sent) ==
  IF ~dst_msgs.ok THEN dst_msgs
  ELSE IF ~sent.ok THEN sent
  ELSE
    LET result == find(sent.val, {"OpenConfirmChannel", "ChainError"})
    IN IF result = NoEvent
         THEN Err("ChanOpenConfirm",
                  "no chan confirm event was in the response")
       ELSE Ok(result)

\* extract_channel_id without its catch-all arm: any event yields an id
extract_channel_id_any(event) == Ok(event.channel_id)

extract_channel_id(event) ==
  IF event.type \in {"OpenInitChannel", "OpenTryChannel", "OpenAckChannel",
                     "OpenConfirmChannel"}
  THEN Ok(event.channel_id)
  ELSE Err("Failed", "cannot extract channel_id from result")

----------------------------------------------------------------------------
\* State

VARIABLES
  pc,            \* position of handshake: "phase1", "phase2", "phase3", "done"
  counter,       \* the loop counter of the current phase
  config,        \* self.config
  flipped_local, \* the local variable flipped of handshake
  chain,         \* the channel ends held by chain A and chain B
  result,        \* what handshake returned, once pc = "done"
  obs,           \* what the last Phase III iteration saw on A and on B
  lastStep,      \* the step the last iteration started and what came of it
  sent,          \* the number of transactions submitted and the last one
  clean,         \* no call failed, no answer was lost, nobody else acted
  start,         \* the situation the run started from
  env,           \* steps taken by other actors
  missing,       \* every Phase I attempt so far was a submission answered
                 \* with neither an init event nor an error event
  qerrs,         \* a channel query failed in every Phase III iteration so far
  iters,         \* the number of Phase III iterations begun
  crossing       \* Phase III began with both ends in TryOpen, each naming the
                 \* other, and since then no call failed, no answer was lost
                 \* and nobody else acted

vars == <<pc, counter, config, flipped_local, chain, result, obs, lastStep,
          sent, clean, start, env, missing, qerrs, iters, crossing>>

\* the number of client-update messages the client updater returns
NumUpd == 2

NoResult == Err("None", "")
NoObs == [qa |-> "none", a |-> Uninitialized, qb |-> "none", b |-> Uninitialized]
\* a step of the driver: the phase, the builder it ran and the chain it was
\* for, the answer of send_msgs (resp), the result of the wrapper (res), the
\* channel end the destination held when the builder ran (dst_channel, for Ack
\* and Confirm) and, where a builder is followed call by call, the calls it
\* made (calls)
NoStep ==
  [phase |-> "", step |-> "None", dstc |-> "", resp |-> NoResult,
   res |-> NoResult, dst_channel |-> NoChannel, calls |-> <<>>]
Step(ph, st, d, sr, r, dc, cs) ==
  [phase |-> ph, step |-> st, dstc |-> d, resp |-> sr, res |-> r,
   dst_channel |-> dc, calls |-> cs]

Failed(m) == Err("Failed", m)
BudgetMessage == "Failed to finish channel handshake in MAX_ITER iterations"

----------------------------------------------------------------------------
\* a transaction: the chain it goes to and its ICS-004 message
\* (msg, the last message of the list msgs, is the one the chain is asked to
\* execute)
Tx(dstc, msgs) == [to |-> dstc, msg |-> msgs[Len(msgs)], msgs |-> msgs]
NoTx ==
  [to |-> "",
   msg |-> ChanMsg("", "", NoChan, NoChan, NoChannel, NoChan, "", NoProofs),
   msgs |-> <<>>]

\* Initial states: a new channel, or a configuration that names channel ends
\* which already exist on the two chains.

GoodEnd(c, st, cp) ==
  ChannelEnd(st, Unordered,
             Counterparty(IF c = "A" THEN PortB ELSE PortA, cp),
             <<ConnOf(c)>>, Version)

Empty == [c \in Chains |-> [id \in ChanIds |-> NoChannel]]

Existing(endA, endB) ==
  [Empty EXCEPT !["A"]["channel-0"] = endA, !["B"]["channel-7"] = endB]

Starts == {"fresh", "open", "crossing", "init_try", "bad_hops", "bad_version"}

StartChain(s) ==
  CASE s = "fresh" -> Empty
    [] s = "open" -> Existing(GoodEnd("A", Open, "channel-7"),
                              GoodEnd("B", Open, "channel-0"))
    [] s = "crossing" -> Existing(GoodEnd("A", TryOpen, "channel-7"),
                                  GoodEnd("B", TryOpen, "channel-0"))
    [] s = "init_try" -> Existing(GoodEnd("A", StInit, NoChan),
                                  GoodEnd("B", TryOpen, "channel-0"))
    [] s = "bad_hops" ->
         Existing([GoodEnd("A", StInit, NoChan)
                     EXCEPT !.connection_hops = <<"connection-X">>],
                  GoodEnd("B", TryOpen, "channel-0"))
    [] s = "bad_version" ->
         Existing([GoodEnd("A", StInit, NoChan)
                     EXCEPT !.version = "ics20-2",
                            !.counterparty.port_id = "portX"],
                  GoodEnd("B", TryOpen, "channel-0"))

StartConfig(s) ==
  IF s = "fresh" THEN ChannelNew(DefaultChannelId, DefaultChannelId)
  ELSE ChannelNew("channel-0", "channel-7")

Init ==
  /\ start \in Starts
  /\ config = StartConfig(start)
  /\ chain = StartChain(start)
  /\ flipped_local = flipped(config)
  /\ pc = "phase1"
  /\ counter = 0
  /\ result = NoResult
  /\ obs = NoObs
  /\ lastStep = NoStep
  /\ sent = [n |-> 0, last |-> NoTx]
  /\ clean = TRUE
  /\ env = 0
  /\ missing = TRUE
  /\ qerrs = TRUE
  /\ iters = 0
  /\ crossing = FALSE

----------------------------------------------------------------------------
\* Channel::handshake

\* what send_msgs can answer to the builder's messages; a failed builder
\* submits nothing
Outcomes(ch, built, dstc) ==
  IF built.ok THEN send_msgs(ch, dstc, built.val)
  ELSE {NotSent(ch)}

\* both ends the configuration names are in TryOpen and name each other
CrossingHello(ch, c) ==
  LET a == ch["A"][a_end(c).channel_id]
      b == ch["B"][b_end(c).channel_id]
  IN /\ a.state = TryOpen
     /\ b.state = TryOpen
     /\ a.counterparty.channel_id = b_end(c).channel_id
     /\ b.counterparty.channel_id = a_end(c).channel_id

\* what the channel ends can be when the driver's query on chain B is served,
\* after its query on chain A was answered from ch (answered tells whether it
\* was): the same, or with A's end moved one state forward by somebody else
RacedHead(ch, answered) ==
  LET id == a_end(config).channel_id
  IN {[ch |-> ch, raced |-> FALSE]} \cup
     IF /\ answered
        /\ env < MaxEnv
        /\ ch["A"][id].state > Uninitialized
        /\ ch["A"][id].state < Closed
     THEN {[ch |-> [ch EXCEPT !["A"][id].state = @ + 1], raced |-> TRUE]}
     ELSE {}

\* what the channel ends can be when a builder for chain c runs, after the
\* driver observed them as ch and while used steps of other actors were taken
\* in this iteration: the same, or with the end the builder is for moved one
\* state forward by somebody else
Raced(ch, c, id, used) ==
  {[ch |-> ch, raced |-> FALSE]} \cup
  IF /\ env + used < MaxEnv
     /\ ch[c][id].state > Uninitialized
     /\ ch[c][id].state < Closed
  THEN {[ch |-> [ch EXCEPT ![c][id].state = @ + 1], raced |-> TRUE]}
  ELSE {}

\* what the channel ends can be when send_msgs is served, after the builder
\* read them as ch and while used steps of other actors were taken in this
\* iteration: the same, or with one of the two ends the configuration names
\* moved one state forward by somebody else
RacedSend(ch, used) ==
  {[ch |-> ch, raced |-> FALSE]} \cup
  IF env + used < MaxEnv
  THEN LET id(c) == IF c = "A" THEN a_end(config).channel_id
                    ELSE b_end(config).channel_id
       IN {[ch |-> [ch EXCEPT ![c][id(c)].state = @ + 1], raced |-> TRUE] :
             c \in {x \in Chains : /\ ch[x][id(x)].state > Uninitialized
                                   /\ ch[x][id(x)].state < Closed}}
  ELSE {}

\* the steps of other actors counted in raced
Moves(raced) == IF raced THEN 1 ELSE 0

\* a wrapper that sends the builder's messages a second time
Submit_twice(built, dstc) ==
  sent' = IF built.ok
          THEN [n |-> sent.n + 2, last |-> Tx(dstc, built.val)]
          ELSE sent

Submit(built, dstc) ==
  sent' = IF built.ok
          THEN [n |-> sent.n + 1, last |-> Tx(dstc, built.val)]
          ELSE sent

Relevant(events, types) == \E i \in 1..Len(events) : events[i].type \in types

\* One iteration of the Phase I loop: chanOpenInit on a_chain
Phase1 ==
  /\ pc = "phase1"
  /\ counter < MAX_ITER
  /\ \E f \in InitFaults :
       LET built == build_chan_init(chain, "A", "B", flipped_local, f)
       IN \E o \in Outcomes(chain, built, "A") :
            LET r == build_chan_init_and_send(built, o.res)
                id == IF r.ok THEN extract_channel_id(r.val) ELSE NoResult
            IN /\ chain' = o.ch
               /\ Submit(built, "A")
               /\ lastStep' = Step("phase1", "Init", "A", o.res, r, NoChannel,
                                   <<>>)
               /\ clean' = (clean /\ f = "none" /\ o.honest)
               /\ missing' =
                    /\ missing
                    /\ built.ok
                    /\ o.res.ok
                    /\ ~Relevant(o.res.val, {"OpenInitChannel", "ChainError"})
               /\ IF ~r.ok
                    THEN /\ counter' = counter + 1
                         /\ UNCHANGED <<pc, config, result>>
                  ELSE IF ~id.ok
                    THEN /\ counter' = counter + 1
                         /\ pc' = "done"
                         /\ result' = id
                         /\ UNCHANGED config
                  ELSE /\ config' = [config EXCEPT !.a_config.channel_id = id.val]
                       /\ pc' = "phase2"
                       /\ counter' = 0
                       /\ UNCHANGED result
  /\ UNCHANGED <<flipped_local, obs, start, env, qerrs, iters, crossing>>

\* The Phase I loop ends with its budget used up
Phase1Exit ==
  /\ pc = "phase1"
  /\ counter >= MAX_ITER
  /\ pc' = "phase2"
  /\ counter' = 0
  /\ UNCHANGED <<config, flipped_local, chain, result, obs, lastStep, sent,
                 clean, start, env, missing, qerrs, iters, crossing>>

\* One iteration of the Phase II loop: chanOpenTry on b_chain
Phase2 ==
  /\ pc = "phase2"
  /\ counter < MAX_ITER
  /\ \E f \in TryFaultKinds :
       LET built == build_chan_try(chain, "B", "A", config, f, NumUpd)
       IN \E o \in Outcomes(chain, built, "B") :
            LET r == build_chan_try_and_send(built, o.res)
                id == IF r.ok THEN extract_channel_id(r.val) ELSE NoResult
            IN /\ chain' = o.ch
               /\ Submit(built, "B")
               /\ lastStep' = Step("phase2", "Try", "B", o.res, r, NoChannel,
                                   <<>>)
               /\ clean' = (clean /\ f = "none" /\ o.honest)
               /\ IF ~r.ok
                    THEN /\ counter' = counter + 1
                         /\ UNCHANGED <<pc, config, flipped_local, result,
                                        crossing>>
                  ELSE IF ~id.ok
                    THEN /\ counter' = counter + 1
                         /\ pc' = "done"
                         /\ result' = id
                         /\ UNCHANGED <<config, flipped_local, crossing>>
                  ELSE /\ config' = [config EXCEPT !.b_config.channel_id = id.val]
                       /\ flipped_local' = flipped(config')
                       /\ pc' = "phase3"
                       /\ counter' = 0
                       /\ crossing' = CrossingHello(chain', config')
                       /\ UNCHANGED result
  /\ UNCHANGED <<obs, start, env, missing, qerrs, iters>>

\* the Phase II loop ending without line 228: Phase III is entered with the
\* flipped copy taken before Phase I
Phase2Exit_stale ==
  /\ pc = "phase2"
  /\ counter >= MAX_ITER
  /\ pc' = "phase3"
  /\ flipped_local' = flipped_local
  /\ counter' = 0
  /\ crossing' = CrossingHello(chain, config)
  /\ UNCHANGED <<config, chain, result, obs, lastStep, sent, clean,
                 start, env, missing, qerrs, iters>>

\* The Phase II loop ends with its budget used up
Phase2Exit ==
  /\ pc = "phase2"
  /\ counter >= MAX_ITER
  /\ pc' = "phase3"
  /\ flipped_local' = flipped(config)
  /\ counter' = 0
  /\ crossing' = CrossingHello(chain, config)
  /\ UNCHANGED <<config, chain, result, obs, lastStep, sent, clean,
                 start, env, missing, qerrs, iters>>

\* the match of Phase III taking (Open, TryOpen) for a finished handshake
Dispatch_early(a, b) ==
  IF (a = StInit /\ b = TryOpen) \/ (a = TryOpen /\ b = TryOpen)
    THEN [step |-> "Ack", dstc |-> "A", opts |-> "flipped"]
  ELSE IF a = TryOpen /\ b = Open
    THEN [step |-> "Confirm", dstc |-> "A", opts |-> "flipped"]
  ELSE IF a = Open /\ b \in {TryOpen, Open}
    THEN [step |-> "Return", dstc |-> "", opts |-> ""]
  ELSE [step |-> "None", dstc |-> "", opts |-> ""]

\* the match of Phase III sending the Confirm for (TryOpen, Open) to chain B
Dispatch_swapped(a, b) ==
  IF (a = StInit /\ b = TryOpen) \/ (a = TryOpen /\ b = TryOpen)
    THEN [step |-> "Ack", dstc |-> "A", opts |-> "flipped"]
  ELSE IF (a = Open /\ b = TryOpen) \/ (a = TryOpen /\ b = Open)
    THEN [step |-> "Confirm", dstc |-> "B", opts |-> "config"]
  ELSE IF a = Open /\ b = Open
    THEN [step |-> "Return", dstc |-> "", opts |-> ""]
  ELSE [step |-> "None", dstc |-> "", opts |-> ""]

\* the match of Phase III without the (TryOpen, TryOpen) pattern
Dispatch_no_crossing(a, b) ==
  IF a = StInit /\ b = TryOpen
    THEN [step |-> "Ack", dstc |-> "A", opts |-> "flipped"]
  ELSE IF a = Open /\ b = TryOpen
    THEN [step |-> "Confirm", dstc |-> "B", opts |-> "config"]
  ELSE IF a = TryOpen /\ b = Open
    THEN [step |-> "Confirm", dstc |-> "A", opts |-> "flipped"]
  ELSE IF a = Open /\ b = Open
    THEN [step |-> "Return", dstc |-> "", opts |-> ""]
  ELSE [step |-> "None", dstc |-> "", opts |-> ""]

\* The match of Phase III on the observed pair of states
Dispatch(a, b) ==
  IF (a = StInit /\ b = TryOpen) \/ (a = TryOpen /\ b = TryOpen)
    THEN [step |-> "Ack", dstc |-> "A", opts |-> "flipped"]
  ELSE IF a = Open /\ b = TryOpen
    THEN [step |-> "Confirm", dstc |-> "B", opts |-> "config"]
  ELSE IF a = TryOpen /\ b = Open
    THEN [step |-> "Confirm", dstc |-> "A", opts |-> "flipped"]
  ELSE IF a = Open /\ b = Open
    THEN [step |-> "Return", dstc |-> "", opts |-> ""]
  ELSE [step |-> "None", dstc |-> "", opts |-> ""]

\* the head of a Phase III iteration going on after a failed query on B, with
\* TryOpen taken for B's state
Observe_unchecked(a_channel, a, b_channel, b) ==
  IF a_channel # "ok" THEN [step |-> "None", dstc |-> "", opts |-> ""]
  ELSE Dispatch(a, IF b_channel = "ok" THEN b ELSE TryOpen)

\* The head of a Phase III iteration: continue if a query failed, else match
Observe(a_channel, a, b_channel, b) ==
  IF a_channel # "ok" THEN [step |-> "None", dstc |-> "", opts |-> ""]
  ELSE IF b_channel # "ok" THEN [step |-> "None", dstc |-> "", opts |-> ""]
  ELSE Dispatch(a, b)

\* One iteration of the Phase III loop
Phase3 ==
  /\ pc = "phase3"
  /\ counter < MAX_ITER
  /\ counter' = counter + 1
  /\ iters' = iters + 1
  /\ \E qa \in BOOLEAN :
     \E qb \in (IF qa THEN BOOLEAN ELSE {FALSE}), h \in RacedHead(chain, qa) :
       LET a_channel == IF qa THEN "ok" ELSE "err"
           b_channel == IF ~qa THEN "none" ELSE IF qb THEN "ok" ELSE "err"
           a == IF a_channel = "ok"
                THEN query_channel(chain, "A", a_end(config).channel_id).state
                ELSE Uninitialized
           b == IF b_channel = "ok"
                THEN query_channel(h.ch, "B", b_end(config).channel_id).state
                ELSE Uninitialized
           d == Observe(a_channel, a, b_channel, b)
           opts == IF d.opts = "flipped" THEN flipped_local ELSE config
       IN /\ obs' = [qa |-> a_channel, a |-> a, qb |-> b_channel, b |-> b]
          /\ qerrs' = (qerrs /\ (a_channel = "err" \/ b_channel = "err"))
          /\ IF d.step \in {"Ack", "Confirm"}
               THEN \E f \in AckFaultKinds,
                       m \in Raced(h.ch, d.dstc, dst(opts).channel_id,
                                   Moves(h.raced)) :
                      LET built ==
                            IF d.step = "Ack"
                            THEN build_chan_ack(m.ch, d.dstc, Other(d.dstc),
                                                opts, f, NumUpd)
                            ELSE build_chan_confirm(m.ch, d.dstc,
                                                    Other(d.dstc), opts, f,
                                                    NumUpd)
                      IN /\ Submit(built, d.dstc)
                         /\ UNCHANGED <<pc, result>>
                         /\ \E s \in (IF built.ok
                                       THEN RacedSend(m.ch, Moves(h.raced)
                                                              + Moves(m.raced))
                                       ELSE {[ch |-> m.ch, raced |-> FALSE]}) :
                              /\ env' = env + Moves(h.raced) + Moves(m.raced)
                                            + Moves(s.raced)
                              /\ \E o \in Outcomes(s.ch, built, d.dstc) :
                                   LET r == IF d.step = "Ack"
                                            THEN build_chan_ack_and_send(
                                                   built, o.res)
                                            ELSE build_chan_confirm_and_send(
                                                   built, o.res)
                                       ok == /\ f = "none"
                                             /\ o.honest
                                             /\ ~h.raced
                                             /\ ~m.raced
                                             /\ ~s.raced
                                   IN /\ chain' = o.ch
                                      /\ lastStep' =
                                           Step("phase3", d.step, d.dstc,
                                                o.res, r,
                                                m.ch[d.dstc][dst(opts).channel_id],
                                                <<>>)
                                      /\ clean' = (clean /\ ok)
                                      /\ crossing' = (crossing /\ ok)
             ELSE IF d.step = "Return"
               THEN /\ pc' = "done"
                    /\ result' = Ok("")
                    /\ lastStep' = Step("phase3", "Return", "", NoResult,
                                        NoResult, NoChannel, <<>>)
                    /\ chain' = h.ch
                    /\ env' = env + Moves(h.raced)
                    /\ clean' = (clean /\ ~h.raced)
                    /\ crossing' = (crossing /\ ~h.raced)
                    /\ UNCHANGED sent
             ELSE /\ lastStep' = Step("phase3", "None", "", NoResult, NoResult,
                                      NoChannel, <<>>)
                  /\ chain' = h.ch
                  /\ env' = env + Moves(h.raced)
                  /\ clean' = /\ clean
                              /\ a_channel = "ok"
                              /\ b_channel = "ok"
                              /\ ~h.raced
                  /\ crossing' = /\ crossing
                                 /\ a_channel = "ok"
                                 /\ b_channel = "ok"
                                 /\ ~h.raced
                  /\ UNCHANGED <<pc, result, sent>>
  /\ UNCHANGED <<config, flipped_local, start, missing>>

\* The Phase III loop ends with its budget used up
Phase3Exit ==
  /\ pc = "phase3"
  /\ counter >= MAX_ITER
  /\ pc' = "done"
  /\ result' = Failed(BudgetMessage)
  /\ UNCHANGED <<counter, config, flipped_local, chain, obs, lastStep, sent,
                 clean, start, env, missing, qerrs, iters, crossing>>

\* Somebody else (another relayer, a user) moves one of the two channel ends
\* the configuration names, if it exists, one state forward
EnvStep ==
  /\ pc # "done"
  /\ env < MaxEnv
  /\ \E c \in Chains :
       LET id == IF c = "A" THEN a_end(config).channel_id
                 ELSE b_end(config).channel_id
           end == chain[c][id]
       IN /\ end.state > Uninitialized
          /\ end.state < Closed
          /\ chain' = [chain EXCEPT ![c][id].state = @ + 1]
  /\ env' = env + 1
  /\ clean' = FALSE
  /\ crossing' = FALSE
  /\ UNCHANGED <<pc, counter, config, flipped_local, result, obs, lastStep,
                 sent, start, missing, qerrs, iters>>

Next ==
  \/ Phase1
  \/ Phase1Exit
  \/ Phase2
  \/ Phase2Exit
  \/ Phase3
  \/ Phase3Exit
  \/ EnvStep

Spec == Init /\ [][Next]_vars

\* handshake is straight-line code on one thread and every call it makes on a
\* chain handle returns, with an answer or with an error: the driver always
\* takes its next step
Driver ==
  \/ Phase1
  \/ Phase1Exit
  \/ Phase2
  \/ Phase2Exit
  \/ Phase3
  \/ Phase3Exit

FairSpec == Spec /\ WF_vars(Driver)

----------------------------------------------------------------------------
\* validated_expected_channel and the builders on their own: a configuration,
\* one channel end on one of the chains under the id the configuration has
\* for it, and one call for either chain as the destination.

EndsV ==
  {ChannelEnd(st, Unordered, Counterparty(port, cp), hops, ver) :
     st \in States, port \in {PortA, PortB},
     cp \in {NoChan, "channel-0", "channel-7"},
     hops \in {<<ConnA>>, <<ConnB>>}, ver \in {Version, "ics20-2"}}

InitV ==
  /\ start = "validate"
  /\ config \in {ChannelNew(x, y) : x, y \in {"channel-0", "channel-7"}}
  /\ \E c \in Chains, end \in EndsV :
       chain = [Empty EXCEPT
                  ![c][IF c = "A" THEN a_end(config).channel_id
                       ELSE b_end(config).channel_id] = end]
  /\ flipped_local = flipped(config)
  /\ pc = "validate"
  /\ counter = 0
  /\ result = NoResult
  /\ obs = NoObs
  /\ lastStep = NoStep
  /\ sent = [n |-> 0, last |-> NoTx]
  /\ clean = TRUE
  /\ env = 0
  /\ missing = FALSE
  /\ qerrs = FALSE
  /\ iters = 0
  /\ crossing = FALSE

\* one call of validated_expected_channel, as build_chan_ack and
\* build_chan_confirm make it
Validate ==
  /\ pc = "validate"
  /\ \E dstc \in Chains, msg_type \in {"OpenAck", "OpenConfirm"} :
       LET opts == IF dstc = "A" THEN flipped_local ELSE config
       IN lastStep' =
            Step("validate", msg_type, dstc, NoResult,
                 validated_expected_channel(chain, dstc, Other(dstc), msg_type,
                                            opts, "none"),
                 query_channel(chain, dstc, dst(opts).channel_id), <<>>)
  /\ pc' = "validated"
  /\ UNCHANGED <<counter, config, flipped_local, chain, result, obs, sent,
                 clean, start, env, missing, qerrs, iters, crossing>>

\* one call of build_chan_try, build_chan_ack or build_chan_confirm in which
\* no call on a chain handle fails, followed call by call, while the source
\* chain produces k blocks
Build ==
  /\ pc = "validate"
  /\ \E dstc \in Chains, step \in {"Try", "Ack", "Confirm"},
        k \in 0..MaxBlocks :
       LET opts == IF dstc = "A" THEN flipped_local ELSE config
           srcc == Other(dstc)
           built ==
             CASE step = "Try" ->
                    build_chan_try(chain, dstc, srcc, opts, "none", NumUpd)
               [] step = "Ack" ->
                    build_chan_ack(chain, dstc, srcc, opts, "none", NumUpd)
               [] step = "Confirm" ->
                    build_chan_confirm(chain, dstc, srcc, opts, "none", NumUpd)
           calls ==
             CASE step = "Try" -> build_chan_try_calls(dstc, srcc, k)
               [] step = "Ack" -> build_chan_ack_calls(dstc, srcc, k)
               [] step = "Confirm" -> build_chan_confirm_calls(dstc, srcc, k)
       IN /\ built.ok
          /\ lastStep' =
               Step("build", step, dstc, NoResult, built,
                    query_channel(chain, dstc, dst(opts).channel_id), calls)
  /\ pc' = "built"
  /\ UNCHANGED <<counter, config, flipped_local, chain, result, obs, sent,
                 clean, start, env, missing, qerrs, iters, crossing>>

NextV ==
  \/ Validate
  \/ Build

SpecV == InitV /\ [][NextV]_vars

----------------------------------------------------------------------------
\* The send-and-extract wrappers on their own: the builder has returned its
\* messages, send_msgs answers with a list of at most MaxEvents events, and
\* one of the four wrappers looks for its event.

MaxEvents == 3

EventsW ==
  {NewBlock, ChainError("insufficient fee")} \cup
  {Event(t, id, "") :
     t \in {"OpenInitChannel", "OpenTryChannel", "OpenAckChannel",
            "OpenConfirmChannel"},
     id \in {"channel-0", "channel-7"}}

ResponsesW ==
  UNION {[1..n -> EventsW] : n \in 0..MaxEvents}

InitW ==
  /\ start = "wrapper"
  /\ \E events \in ResponsesW :
       lastStep = Step("wrapper", "None", "", Ok(events), NoResult, NoChannel,
                       <<>>)
  /\ config = ChannelNew("channel-0", "channel-7")
  /\ flipped_local = flipped(config)
  /\ chain = Empty
  /\ pc = "wrapper"
  /\ counter = 0
  /\ result = NoResult
  /\ obs = NoObs
  /\ sent = [n |-> 0, last |-> NoTx]
  /\ clean = TRUE
  /\ env = 0
  /\ missing = FALSE
  /\ qerrs = FALSE
  /\ iters = 0
  /\ crossing = FALSE

\* the part of a wrapper after send_msgs has returned events
Wrap ==
  /\ pc = "wrapper"
  /\ \E step \in {"Init", "Try", "Ack", "Confirm"} :
       LET dst_msgs == Ok(<<>>)
           r == CASE step = "Init" ->
                       build_chan_init_and_send(dst_msgs, lastStep.resp)
                  [] step = "Try" ->
                       build_chan_try_and_send(dst_msgs, lastStep.resp)
                  [] step = "Ack" ->
                       build_chan_ack_and_send(dst_msgs, lastStep.resp)
                  [] step = "Confirm" ->
                       build_chan_confirm_and_send(dst_msgs, lastStep.resp)
       IN lastStep' = [lastStep EXCEPT !.step = step, !.res = r]
  /\ pc' = "wrapped"
  /\ UNCHANGED <<counter, config, flipped_local, chain, result, obs, sent,
                 clean, start, env, missing, qerrs, iters, crossing>>

NextW == Wrap

SpecW == InitW /\ [][NextW]_vars

----------------------------------------------------------------------------
\* ChannelConfig::flipped on its own: a configuration c (config), the value f
\* of c.flipped() (flipped_local), then either f.flipped() or an assignment to
\* a channel id of c or of f.

ConfigsF ==
  {[ChannelNew(x, y) EXCEPT !.ordering = o] :
     x, y \in ChanIds, o \in {Unordered, "Ordered"}}

InitF ==
  /\ start = "flipped"
  /\ config \in ConfigsF
  /\ flipped_local = config
  /\ chain = Empty
  /\ pc = "flip"
  /\ counter = 0
  /\ result = NoResult
  /\ obs = NoObs
  /\ lastStep = NoStep
  /\ sent = [n |-> 0, last |-> NoTx]
  /\ clean = TRUE
  /\ env = 0
  /\ missing = FALSE
  /\ qerrs = FALSE
  /\ iters = 0
  /\ crossing = FALSE

\* let f = c.flipped()
Flip ==
  /\ pc = "flip"
  /\ flipped_local' = flipped(config)
  /\ pc' = "flipped"
  /\ UNCHANGED <<counter, config, chain, result, obs, lastStep, sent, clean,
                 start, env, missing, qerrs, iters, crossing>>

\* f = f.flipped()
FlipAgain ==
  /\ pc = "flipped"
  /\ flipped_local' = flipped(flipped_local)
  /\ pc' = "flipped_twice"
  /\ UNCHANGED <<counter, config, chain, result, obs, lastStep, sent, clean,
                 start, env, missing, qerrs, iters, crossing>>

\* c.a_config.channel_id = id, as the driver does after Phase I
AssignConfig ==
  /\ pc = "flipped"
  /\ \E id \in ChanIds : config' = [config EXCEPT !.a_config.channel_id = id]
  /\ pc' = "assigned"
  /\ UNCHANGED <<counter, flipped_local, chain, result, obs, lastStep, sent,
                 clean, start, env, missing, qerrs, iters, crossing>>

\* f.a_config.channel_id = id
AssignFlipped ==
  /\ pc = "flipped"
  /\ \E id \in ChanIds :
       flipped_local' = [flipped_local EXCEPT !.a_config.channel_id = id]
  /\ pc' = "assigned_flipped"
  /\ UNCHANGED <<counter, config, chain, result, obs, lastStep, sent, clean,
                 start, env, missing, qerrs, iters, crossing>>

NextF ==
  \/ Flip
  \/ FlipAgain
  \/ AssignConfig
  \/ AssignFlipped

SpecF == InitF /\ [][NextF]_vars

----------------------------------------------------------------------------
\* Properties

LastTx == <<sent.last.msg.type, sent.last.to>>

\* the first event of a response that is the step's open event or ChainError
FirstRelevant(step) ==
  find(step.resp.val,
       {"ChainError",
        CASE step.step = "Init" -> "OpenInitChannel"
          [] step.step = "Try" -> "OpenTryChannel"
          [] step.step = "Ack" -> "OpenAckChannel"
          [] step.step = "Confirm" -> "OpenConfirmChannel"
          [] OTHER -> "ChainError"})

Submitted(step) ==
  step.step \in {"Init", "Try", "Ack", "Confirm"} /\ step.resp.ok

SawOpenOpen ==
  /\ lastStep.phase = "phase3"
  /\ obs.qa = "ok" /\ obs.qb = "ok"
  /\ obs.a = Open /\ obs.b = Open

\* C1: handshake returns Ok exactly when its last Phase III iteration got both
\* channel queries answered and both answers were Open; every other run that
\* terminates returns an error.
C1_OkOnlyFromOpenOpen ==
  pc = "done" =>
    /\ result.ok <=> SawOpenOpen
    /\ result.ok => lastStep.step = "Return"
    /\ ~result.ok => result.kind = "Failed"

C1_Witness == pc = "done" /\ result.ok /\ SawOpenOpen /\ sent.n >= 4

\* C2: handshake returns an error only when the iteration budget is used up,
\* and that error is Failed("Failed to finish channel handshake in MAX_ITER
\* iterations"); every error inside an iteration is caught.
C2_OnlyBudgetError ==
  (pc = "done" /\ ~result.ok) =>
    /\ result = Failed(BudgetMessage)
    /\ iters = MAX_ITER

\* C3: when the answer to a Try submission has ChainError as its first
\* relevant event, build_chan_try_and_send returns ChanOpenTry with the
\* chain's message and Phase II goes on instead of ending the handshake.
C3_TryChainErrorRetried ==
  (/\ lastStep.step = "Try"
   /\ Submitted(lastStep)
   /\ FirstRelevant(lastStep).type = "ChainError") =>
    /\ lastStep.res = Err("ChanOpenTry", FirstRelevant(lastStep).message)
    /\ pc # "done"

\* C4: in each of the four send-and-extract wrappers, a response whose first
\* relevant event is ChainError gives an error of the step's kind carrying
\* the chain's message, never Ok.
C4_ChainErrorIsError ==
  (Submitted(lastStep) /\ FirstRelevant(lastStep).type = "ChainError") =>
    /\ ~lastStep.res.ok
    /\ lastStep.res.kind = "ChanOpen" \o lastStep.step
    /\ lastStep.res.msg = FirstRelevant(lastStep).message

\* C5: run against a channel that is already Open on both ends, with chains
\* that answer every call, the driver submits no transaction and returns Ok
\* from its first Phase III iteration.
C5_AlreadyOpenSendsNothing ==
  (start = "open" /\ clean) =>
    /\ sent.n = 0
    /\ pc = "done" => (result.ok /\ iters = 1)

HasEvent(resp, type, id) ==
  resp.ok /\ \E i \in 1..Len(resp.val) : resp.val[i] = Event(type, id, "")

\* C6: each side's channel_id is written at most once: A's only in Phase I,
\* with the id of an OpenInitChannel event chain A returned, B's only in
\* Phase II, with the id of an OpenTryChannel event chain B returned; the
\* write ends the phase, no phase is entered twice, and nothing else of the
\* config changes.
C6_ChannelIdWrittenOnce ==
  [][/\ config'.a_config.channel_id # config.a_config.channel_id =>
          /\ pc = "phase1" /\ pc' = "phase2"
          /\ lastStep'.dstc = "A"
          /\ HasEvent(lastStep'.resp, "OpenInitChannel",
                      config'.a_config.channel_id)
     /\ config'.b_config.channel_id # config.b_config.channel_id =>
          /\ pc = "phase2" /\ pc' = "phase3"
          /\ lastStep'.dstc = "B"
          /\ HasEvent(lastStep'.resp, "OpenTryChannel",
                      config'.b_config.channel_id)
     /\ pc' = "phase1" => pc = "phase1"
     /\ pc' = "phase2" => pc \in {"phase1", "phase2"}
     /\ config' = [config EXCEPT
                     !.a_config.channel_id = config'.a_config.channel_id,
                     !.b_config.channel_id = config'.b_config.channel_id]
    ]_vars

C6_Witness ==
  /\ start = "open"
  /\ pc = "done"
  /\ config.a_config.channel_id = "channel-7"
  /\ config.b_config.channel_id = "channel-0"

\* what a Phase III iteration that saw (a, b) has to do
C7_Table(a, b) ==
  IF (a = StInit /\ b = TryOpen) \/ (a = TryOpen /\ b = TryOpen)
    THEN <<"Ack", "A", "MsgChannelOpenAck">>
  ELSE IF a = Open /\ b = TryOpen
    THEN <<"Confirm", "B", "MsgChannelOpenConfirm">>
  ELSE IF a = TryOpen /\ b = Open
    THEN <<"Confirm", "A", "MsgChannelOpenConfirm">>
  ELSE IF a = Open /\ b = Open THEN <<"Return", "", "">>
  ELSE <<"None", "", "">>

\* C7: a Phase III iteration whose two queries succeed starts at most one
\* step, the one the observed pair fixes: Ack at A for (Init, TryOpen) and
\* (TryOpen, TryOpen), Confirm at B for (Open, TryOpen), Confirm at A for
\* (TryOpen, Open), return Ok for (Open, Open), and for every other pair it
\* submits nothing and does not return.
C7_DispatchTable ==
  [][(iters' = iters + 1 /\ obs'.qa = "ok" /\ obs'.qb = "ok") =>
       LET want == C7_Table(obs'.a, obs'.b)
       IN /\ lastStep'.step = want[1]
          /\ lastStep'.dstc = want[2]
          /\ \/ sent' = sent
             \/ /\ want[1] \in {"Ack", "Confirm"}
                /\ sent'.n = sent.n + 1
                /\ sent'.last.to = want[2]
                /\ sent'.last.msg.type = want[3]
          /\ (want[1] \notin {"Ack", "Confirm"} /\ env' = env) =>
               chain' = chain
          /\ (pc' = "done") <=> (want[1] = "Return")
          /\ (pc' = "done") => result'.ok
    ]_vars

C7_Witness ==
  /\ lastStep.phase = "phase3"
  /\ obs = [qa |-> "ok", a |-> TryOpen, qb |-> "ok", b |-> Open]
  /\ lastStep.step = "Confirm"
  /\ LastTx = <<"MsgChannelOpenConfirm", "A">>

\* C8: if every Init submission is answered with neither OpenInitChannel nor
\* ChainError, every Phase I attempt yields ChanOpenInit("no chan init event
\* was in the response"), Phase I runs out of budget and the handshake
\* returns an error.
C8_MissingInitFails ==
  missing =>
    /\ lastStep.phase = "phase1" =>
         lastStep.res =
           Err("ChanOpenInit", "no chan init event was in the response")
    /\ pc = "done" => ~result.ok

\* C9: a Phase III iteration in which a channel query fails submits nothing,
\* changes no channel end itself, counts against the budget and is followed by
\* another iteration, which queries again; if Phase III is reached and a
\* query fails in every iteration, handshake returns Failed after exactly
\* MAX_ITER iterations.
C9_QueryErrorSkipsIteration ==
  /\ [][iters' = iters + 1 =>
          /\ obs'.qa \in {"ok", "err"}
          /\ (obs'.qa = "err" \/ obs'.qb = "err") =>
               /\ sent' = sent
               /\ env' = env => chain' = chain
               /\ counter' = counter + 1
               /\ pc' = "phase3"
               /\ result' = result
       ]_vars
  /\ [](pc = "done" /\ iters > 0 /\ qerrs =>
          /\ result = Failed(BudgetMessage)
          /\ iters = MAX_ITER)

C9_Witness ==
  /\ pc = "done"
  /\ qerrs
  /\ iters = MAX_ITER
  /\ obs.qa = "ok" /\ obs.qb = "err"

Happy == start = "fresh" /\ clean

\* C10: on two chains that follow ICS-004 and answer every call, a new channel
\* is opened in three Phase III iterations: (Init, TryOpen) and Ack to A,
\* (Open, TryOpen) and Confirm to B, (Open, Open) and Ok; the config ends with
\* the channel ids the two chains gave out.
C10_HappyPath ==
  Happy =>
    /\ pc = "phase1" => sent.n = 0
    /\ pc = "phase2" =>
         /\ sent.n = 1
         /\ LastTx = <<"MsgChannelOpenInit", "A">>
         /\ config.a_config.channel_id = "channel-0"
    /\ (pc = "phase3" /\ iters = 0) =>
         /\ sent.n = 2
         /\ LastTx = <<"MsgChannelOpenTry", "B">>
         /\ config.b_config.channel_id = "channel-7"
    /\ iters = 1 =>
         /\ obs = [qa |-> "ok", a |-> StInit, qb |-> "ok", b |-> TryOpen]
         /\ sent.n = 3
         /\ LastTx = <<"MsgChannelOpenAck", "A">>
         /\ lastStep.res.ok
         /\ pc = "phase3"
    /\ iters = 2 =>
         /\ obs = [qa |-> "ok", a |-> Open, qb |-> "ok", b |-> TryOpen]
         /\ sent.n = 4
         /\ LastTx = <<"MsgChannelOpenConfirm", "B">>
         /\ lastStep.res.ok
         /\ pc = "phase3"
    /\ iters >= 3 =>
         /\ iters = 3
         /\ pc = "done"
         /\ result.ok
         /\ obs = [qa |-> "ok", a |-> Open, qb |-> "ok", b |-> Open]
         /\ sent.n = 4
         /\ LastTx = <<"MsgChannelOpenConfirm", "B">>
    /\ pc = "done" =>
         /\ result.ok
         /\ config.a_config.channel_id = "channel-0"
         /\ config.b_config.channel_id = "channel-7"
         /\ chain["A"]["channel-0"].state = Open
         /\ chain["B"]["channel-7"].state = Open
         /\ chain["A"]["channel-0"].counterparty.channel_id = "channel-7"
         /\ chain["B"]["channel-7"].counterparty.channel_id = "channel-0"

C10_Witness == Happy /\ pc = "done" /\ result.ok /\ iters = 3

\* C11: crossing hello.  When Phase III begins with both ends in TryOpen, each
\* naming the other, and the chains answer every call, the first iteration
\* sees (TryOpen, TryOpen), its Ack for chain A passes the precondition check
\* and is submitted and A becomes Open; the second sees (Open, TryOpen) and
\* sends Confirm to B, which becomes Open; the third sees (Open, Open) and
\* returns Ok.
C11_CrossingHello ==
  crossing =>
    /\ iters = 0 => pc = "phase3"
    /\ iters = 1 =>
         /\ obs = [qa |-> "ok", a |-> TryOpen, qb |-> "ok", b |-> TryOpen]
         /\ lastStep.step = "Ack"
         /\ lastStep.dst_channel.state = TryOpen
         /\ lastStep.resp.ok
         /\ LastTx = <<"MsgChannelOpenAck", "A">>
         /\ HasEvent(lastStep.resp, "OpenAckChannel",
                     a_end(config).channel_id)
         /\ lastStep.res.ok
         /\ chain["A"][a_end(config).channel_id].state = Open
         /\ chain["B"][b_end(config).channel_id].state = TryOpen
         /\ pc = "phase3"
    /\ iters = 2 =>
         /\ obs = [qa |-> "ok", a |-> Open, qb |-> "ok", b |-> TryOpen]
         /\ lastStep.step = "Confirm"
         /\ lastStep.resp.ok
         /\ LastTx = <<"MsgChannelOpenConfirm", "B">>
         /\ HasEvent(lastStep.resp, "OpenConfirmChannel",
                     b_end(config).channel_id)
         /\ chain["A"][a_end(config).channel_id].state = Open
         /\ chain["B"][b_end(config).channel_id].state = Open
         /\ pc = "phase3"
    /\ iters >= 3 =>
         /\ iters = 3
         /\ obs = [qa |-> "ok", a |-> Open, qb |-> "ok", b |-> Open]
         /\ pc = "done"
         /\ result.ok

C11_Witness == crossing /\ pc = "done" /\ result.ok /\ iters = 3

\* the channel id the configuration has for chain c
ConfigId(c) ==
  IF c = "A" THEN a_end(config).channel_id ELSE b_end(config).channel_id

\* a destination channel end on chain c that the precondition check of Ack and
\* Confirm does not let pass
Rejects(end, c) ==
  \/ end.state = Uninitialized
  \/ end.state \in {Open, Closed}
  \/ end.connection_hops # <<ConnOf(c)>>
  \/ /\ end.counterparty.channel_id # NoChan
     /\ end.counterparty.channel_id # ConfigId(Other(c))

PreconditionError(step) ==
  IF step = "Ack"
  THEN Err("ChanOpenAck",
           "ack options inconsistent with existing channel on destination chain")
  ELSE Err("ChanOpenConfirm",
           "confirm options inconsistent with existing channel on destination chain")

\* C12: when the Ack or Confirm builder finds the destination channel in a
\* state its precondition check rejects (such as Open, the destination having
\* advanced after the driver observed it), the builder fails with the step's
\* error, send_msgs is not called and no transaction is submitted in that
\* iteration, and the driver goes on to the next iteration; a run that ends in
\* Phase III without success returns Failed after MAX_ITER iterations.
C12_PreconditionFailure ==
  /\ [][(/\ iters' = iters + 1
         /\ lastStep'.step \in {"Ack", "Confirm"}
         /\ Rejects(lastStep'.dst_channel, lastStep'.dstc)) =>
          /\ lastStep'.res = PreconditionError(lastStep'.step)
          /\ lastStep'.resp = NotSent(chain).res
          /\ sent' = sent
          /\ env' = env => chain' = chain
          /\ \A c \in Chains, id \in ChanIds :
               chain'[c][id] # chain[c][id] => id = ConfigId(c)
          /\ chain'[lastStep'.dstc][ConfigId(lastStep'.dstc)] =
               lastStep'.dst_channel
          /\ counter' = counter + 1
          /\ pc' = "phase3"
          /\ result' = result
       ]_vars
  /\ []((pc = "done" /\ iters > 0 /\ ~result.ok) =>
          /\ result = Failed(BudgetMessage)
          /\ iters = MAX_ITER)

C12_Witness ==
  /\ pc = "done"
  /\ result = Failed(BudgetMessage)
  /\ lastStep.step = "Ack"
  /\ obs.a = TryOpen
  /\ lastStep.dst_channel.state = Open
  /\ lastStep.res = PreconditionError("Ack")

\* the ICS-004 message variant of a step
MsgTypeOf(step) ==
  CASE step = "Init" -> "MsgChannelOpenInit"
    [] step = "Try" -> "MsgChannelOpenTry"
    [] step = "Ack" -> "MsgChannelOpenAck"
    [] step = "Confirm" -> "MsgChannelOpenConfirm"
    [] OTHER -> ""

ClientOf(c) == IF c = "A" THEN ClientA ELSE ClientB

\* C13: every message list a builder returns ends with one ICS-004 message of
\* the step's variant, and every element before it is a client-update message
\* for the destination's client, all the messages of the client updater in
\* the order it produced them; the list of build_chan_init is the
\* ChanOpenInit alone.
C13_MessageListShape ==
  [][sent' # sent =>
       LET msgs == sent'.last.msgs
           n == Len(msgs)
       IN /\ n >= 1
          /\ msgs[n].type = MsgTypeOf(lastStep'.step)
          /\ msgs[n].type # ""
          /\ \A i \in 1..(n - 1) :
               msgs[i] = [type |-> "MsgUpdateClient",
                          client_id |-> ClientOf(sent'.last.to),
                          header |-> i]
          /\ n = IF lastStep'.step = "Init" THEN 1 ELSE NumUpd + 1
    ]_vars

C13_Witness ==
  /\ lastStep.step = "Confirm"
  /\ lastStep.resp.ok
  /\ Len(sent.last.msgs) = NumUpd + 1
  /\ sent.last.msgs[NumUpd].type = "MsgUpdateClient"
  /\ sent.last.msgs[NumUpd + 1].type = "MsgChannelOpenConfirm"

\* the calls of the last builder on its source chain with one of the names
SrcCalls(names) ==
  {i \in 1..Len(lastStep.calls) :
     /\ lastStep.calls[i].chain = Other(lastStep.dstc)
     /\ lastStep.calls[i].call \in names}

\* C14: in build_chan_try, build_chan_ack and build_chan_confirm the source's
\* channel is read, and the proofs are built, at one and the same height: the
\* height H that query_latest_height returned, whatever blocks the source
\* produces while the builder runs.
C14_SameHeight ==
  lastStep.calls # <<>> =>
    \A h \in SrcCalls({"query_latest_height"}) :
      \A i \in SrcCalls({"query_channel", "build_channel_proofs"}) :
        lastStep.calls[i].at = lastStep.calls[h].height

\* the calls of the last builder with the name, on either chain
CallsNamed(name) ==
  {i \in 1..Len(lastStep.calls) : lastStep.calls[i].call = name}

\* C15: a call of build_chan_try, build_chan_ack or build_chan_confirm that
\* returns its messages has called query_latest_height on the source chain
\* exactly once, and the height it got is the target height given to
\* build_update_client and the height given to build_channel_proofs.
C15_LatestHeightOnce ==
  lastStep.calls # <<>> =>
    /\ Cardinality(CallsNamed("query_latest_height")) = 1
    /\ CallsNamed("query_latest_height") = SrcCalls({"query_latest_height"})
    /\ Cardinality(CallsNamed("build_update_client")) = 1
    /\ Cardinality(SrcCalls({"build_channel_proofs"})) = 1
    /\ \A h \in CallsNamed("query_latest_height") :
         \A i \in CallsNamed("build_update_client")
                   \cup CallsNamed("build_channel_proofs") :
           /\ h < i
           /\ lastStep.calls[i].height = lastStep.calls[h].height

C15_Witness ==
  /\ lastStep.step = "Try"
  /\ lastStep.res.ok
  /\ \E h \in CallsNamed("query_latest_height") :
       lastStep.calls[h].height = EntryHeight + MaxBlocks

\* C16: validated_expected_channel, for OpenAck and for OpenConfirm, returns an
\* error for a destination channel that is Uninitialized, or Open or Closed,
\* or whose connection hops are not [dst.connection_id], or whose counterparty
\* channel id is set and is not src.channel_id; for a channel in Init or
\* TryOpen with those hops and an unset or matching counterparty channel id it
\* returns Ok with the expected channel end.
C16_ValidatedExpectedChannel ==
  lastStep.phase = "validate" =>
    LET end == lastStep.dst_channel
        c == lastStep.dstc
        bad == \/ end.state = Uninitialized
               \/ end.state \in {Open, Closed}
               \/ end.connection_hops # <<ConnOf(c)>>
               \/ /\ end.counterparty.channel_id # NoChan
                  /\ end.counterparty.channel_id # ConfigId(Other(c))
    IN /\ lastStep.step \in {"OpenAck", "OpenConfirm"}
       /\ bad => (~lastStep.res.ok /\ lastStep.res.kind = "ChanOpen")
       /\ ~bad =>
            /\ end.state \in {StInit, TryOpen}
            /\ lastStep.res =
                 Ok(ChannelEnd(TryOpen, Unordered,
                               Counterparty(IF c = "A" THEN PortB ELSE PortA,
                                            ConfigId(Other(c))),
                               <<ConnOf(c)>>, Version))

C16_Witness ==
  /\ lastStep.phase = "validate"
  /\ lastStep.step = "OpenConfirm"
  /\ lastStep.dst_channel.state = TryOpen
  /\ lastStep.dst_channel.connection_hops = <<ConnOf(lastStep.dstc)>>
  /\ lastStep.dst_channel.counterparty.channel_id
       \notin {NoChan, ConfigId(Other(lastStep.dstc))}
  /\ ~lastStep.res.ok

\* C17: flipped gives a value with c's b side as a side, c's a side as b side
\* and c's ordering; flipping that value again gives c's ordering, a side and
\* b side back; and an assignment to a channel id of c or of the flipped value
\* leaves the other one as it was.
C17_FlippedInvolution ==
  /\ [](pc = "flipped" =>
          /\ flipped_local.a_config = config.b_config
          /\ flipped_local.b_config = config.a_config
          /\ flipped_local.ordering = config.ordering)
  /\ [](pc = "flipped_twice" =>
          /\ flipped_local.ordering = config.ordering
          /\ flipped_local.a_config = config.a_config
          /\ flipped_local.b_config = config.b_config)
  /\ [][/\ pc' = "assigned" => flipped_local' = flipped_local
        /\ pc' = "assigned_flipped" => config' = config
       ]_vars

C17_Witness ==
  /\ pc = "flipped_twice"
  /\ config.ordering = "Ordered"
  /\ config.a_config.channel_id = "channel-0"
  /\ config.b_config.channel_id = "channel-7"
  /\ flipped_local = config

\* C18: handshake terminates.  No phase runs more than MAX_ITER iterations, an
\* iteration submits at most one transaction, Phase I is left with its first
\* successful Init and Phase II with its first successful Try, and a run
\* submits at most 3 * MAX_ITER transactions.
C18_Termination ==
  /\ [](/\ counter <= MAX_ITER
        /\ iters <= MAX_ITER
        /\ sent.n <= 3 * MAX_ITER
        /\ pc = "phase1" => ~lastStep.res.ok
        /\ (pc = "phase2" /\ lastStep.phase = "phase2") => ~lastStep.res.ok)
  /\ [][/\ sent'.n \in {sent.n, sent.n + 1}
        /\ sent'.n = sent.n + 1 =>
             \/ counter' = counter + 1
             \/ counter' = 0 /\ pc' # pc
        /\ pc' # pc =>
             <<pc, pc'>> \in {<<"phase1", "phase2">>, <<"phase2", "phase3">>,
                              <<"phase1", "done">>, <<"phase2", "done">>,
                              <<"phase3", "done">>}
       ]_vars
  /\ <>(pc = "done")

C18_Witness == pc = "done" /\ sent.n = 3 * MAX_ITER /\ iters = MAX_ITER

\* C19: build_chan_ack and build_chan_confirm produce no message for a
\* destination channel whose version is not the version expected for the
\* destination port, or whose counterparty port is not the source port: the
\* precondition check rejects it and nothing is submitted.
C19_VersionChecked ==
  (/\ lastStep.phase = "phase3"
   /\ lastStep.step \in {"Ack", "Confirm"}
   /\ \/ lastStep.dst_channel.version # Version
      \/ lastStep.dst_channel.counterparty.port_id
           # (IF lastStep.dstc = "A" THEN PortB ELSE PortA)) =>
    /\ ~lastStep.res.ok
    /\ lastStep.resp = NotSent(chain).res

\* C20: the driver submits a Try only when the A end has been seen to exist in
\* Init or TryOpen (here: the A end the Try builder reads is in one of these
\* states), an Ack only after it observed the counterparty of the Ack's
\* destination in TryOpen, and a Confirm only after it observed the
\* counterparty of the Confirm's destination in Open.
C20_StepOrderByObservation ==
  [][sent'.n = sent.n + 1 =>
       LET type == sent'.last.msg.type
           to == sent'.last.to
           seen == IF to = "A" THEN obs'.b ELSE obs'.a
       IN /\ type = "MsgChannelOpenTry" =>
               chain["A"][a_end(config).channel_id].state \in {StInit, TryOpen}
          /\ type = "MsgChannelOpenAck" =>
               (obs'.qa = "ok" /\ obs'.qb = "ok" /\ seen = TryOpen)
          /\ type = "MsgChannelOpenConfirm" =>
               (obs'.qa = "ok" /\ obs'.qb = "ok" /\ seen = Open)
    ]_vars

\* the message of a wrapper that found no event of its step
NoEventMessage(step) ==
  CASE step = "Init" -> "no chan init event was in the response"
    [] step = "Try" -> "no chan try event was in the response"
    [] step = "Ack" -> "no chan ack event was in the response"
    [] step = "Confirm" -> "no chan confirm event was in the response"

\* C21: a send-and-extract wrapper decides from the first event of the
\* response that is the step's Open*Channel variant or ChainError, whatever
\* comes before or after it: it returns that event if it is the step's
\* variant, it returns nothing else than that event or an error with that
\* event's message if it is ChainError, and a response without such an event
\* gives the step's error 'no chan <step> event was in the response'.
C21_FirstRelevantEvent ==
  pc = "wrapped" =>
    LET events == lastStep.resp.val
        want == OpenEvent(MsgTypeOf(lastStep.step))
        rel == {i \in 1..Len(events) : events[i].type \in {want, "ChainError"}}
    IN IF rel = {}
       THEN lastStep.res =
              Err("ChanOpen" \o lastStep.step, NoEventMessage(lastStep.step))
       ELSE LET first == CHOOSE i \in rel : \A j \in rel : i <= j
            IN /\ events[first].type = want => lastStep.res = Ok(events[first])
               /\ events[first].type = "ChainError" =>
                    IF lastStep.res.ok
                    THEN lastStep.res.val = events[first]
                    ELSE lastStep.res.msg = events[first].message

C21_Witness ==
  /\ pc = "wrapped"
  /\ lastStep.step = "Ack"
  /\ Len(lastStep.resp.val) = 3
  /\ lastStep.resp.val[1] = NewBlock
  /\ lastStep.resp.val[2] = Event("OpenAckChannel", "channel-7", "")
  /\ lastStep.resp.val[3].type = "ChainError"
  /\ lastStep.res = Ok(Event("OpenAckChannel", "channel-7", ""))

\* C22: ChanOpenInit is submitted only to chain A and only in Phase I,
\* ChanOpenTry only to chain B and only in Phase II, and nothing else is
\* submitted in these phases.  An Init message carries A's port, a channel end
\* in Init with counterparty (B's port, no channel id) and connection hops
\* [A's connection id]; a Try message carries B's port, a channel end in
\* TryOpen with counterparty (A's port, the channel id the configuration has
\* for A: the one assigned in Phase I) and connection hops [B's connection
\* id].
C22_InitTryFields ==
  [][sent'.n = sent.n + 1 =>
       LET m == sent'.last.msg
           to == sent'.last.to
       IN /\ (m.type = "MsgChannelOpenInit") <=> (pc = "phase1")
          /\ (m.type = "MsgChannelOpenTry") <=> (pc = "phase2")
          /\ m.type = "MsgChannelOpenInit" =>
               /\ to = "A"
               /\ m.port_id = PortA
               /\ m.channel.state = StInit
               /\ m.channel.counterparty = Counterparty(PortB, NoChan)
               /\ m.channel.connection_hops = <<ConnA>>
          /\ m.type = "MsgChannelOpenTry" =>
               /\ to = "B"
               /\ m.port_id = PortB
               /\ m.channel.state = TryOpen
               /\ m.channel.counterparty =
                    Counterparty(PortA, a_end(config).channel_id)
               /\ m.channel.connection_hops = <<ConnB>>
    ]_vars

C22_Witness ==
  /\ start = "fresh"
  /\ lastStep.step = "Try"
  /\ lastStep.resp.ok
  /\ sent.n = 2
  /\ sent.last.to = "B"
  /\ sent.last.msg.type = "MsgChannelOpenTry"
  /\ sent.last.msg.channel.counterparty = Counterparty(PortA, "channel-0")

\* C23: all through Phase III the flipped config is the flip of the driver's
\* current config, so it has the channel ids assigned in Phases I and II.
\* Every Ack or Confirm submitted to A names config.a's channel id and takes
\* its proof for (B's port, config.b's channel id); every message submitted to
\* B in Phase III is a Confirm that names config.b's channel id and takes its
\* proof for (A's port, config.a's channel id).
C23_FlippedInPhase3 ==
  /\ [](pc = "phase3" =>
          /\ flipped_local.ordering = config.ordering
          /\ flipped_local.a_config = config.b_config
          /\ flipped_local.b_config = config.a_config)
  /\ [][(iters' = iters + 1 /\ sent'.n = sent.n + 1) =>
          LET m == sent'.last.msg
              to == sent'.last.to
          IN /\ m.type \in {"MsgChannelOpenAck", "MsgChannelOpenConfirm"}
             /\ to = "A" =>
                  /\ m.port_id = PortA
                  /\ m.channel_id = a_end(config).channel_id
                  /\ m.proofs = Proofs(PortB, b_end(config).channel_id)
             /\ to = "B" =>
                  /\ m.type = "MsgChannelOpenConfirm"
                  /\ m.port_id = PortB
                  /\ m.channel_id = b_end(config).channel_id
                  /\ m.proofs = Proofs(PortA, a_end(config).channel_id)
       ]_vars

C23_Witness ==
  /\ start = "fresh"
  /\ lastStep.phase = "phase3"
  /\ lastStep.step = "Ack"
  /\ lastStep.resp.ok
  /\ sent.last.to = "A"
  /\ sent.last.msg.channel_id = "channel-0"
  /\ sent.last.msg.proofs = Proofs(PortB, "channel-7")
  /\ flipped_local.b_config.channel_id = "channel-0"

====
